---- MODULE Spec2Model ----
(***************************************************************************)
(* Personal finance tracker backend: the User model (password hashing     *)
(* hook, token issuance), the protect middleware and the transaction      *)
(* routes, modelled from src/Cuong and src/Kip.                            *)
(*                                                                         *)
(* An optional value (a missing cookie, an absent query parameter, null)  *)
(* is a sequence of length 0 or 1.  Texts are sequences of characters.    *)
(***************************************************************************)
EXTENDS Integers, Sequences, FiniteSets, TLC

\* ------------------------------------------------------------------ bounds
MaxTime == 2
MaxUsers == 2
MaxAccounts == 1
MaxTokens == 1
MaxTx == 2
MaxHashDepth == 2
MaxPaged == 3
DayLen == 2
MonthLen == 1

\* ------------------------------------------------------- program constants
\* process.env.JWT_EXPIRE, in clock ticks
JWT_EXPIRE == 1
DefaultPage == 1
DefaultLimit == 10
MaxLimit == 100

VARIABLES users, nextUid, lastSave, now, issued, txs, nextId, reqs, pager

vars == <<users, nextUid, lastSave, now, issued, txs, nextId, reqs, pager>>

\* ----------------------------------------------------------------- values
None == <<>>
Some(v) == <<v>>

Min(a, b) == IF a < b THEN a ELSE b
Max(a, b) == IF a > b THEN a ELSE b
CeilDiv(a, b) == (a + b - 1) \div b

Slots == {1, 2}

\* ---------------------------------------------------------- models/User.js
Plaintexts == {<<"p1">>, <<"p2">>}

\* bcrypt.hash(value, salt): one-way, never the identity; bcrypt.compare
\* accepts exactly the plaintext a hash was computed from.
Hash(v) == <<"$2a$10$">> \o v

EmailOf(u) == IF u = 1 THEN "a@x.vn" ELSE IF u = 2 THEN "b@x.vn" ELSE "c@x.vn"

UserById(us, id) == {u \in us : u._id = id}

\* userSchema.pre('save'): doc.password is the in-memory field (None when the
\* document was loaded without it, select: false), doc.modified is
\* this.isModified('password').  next() on the unmodified branch is not
\* followed by a return, so the function goes on to genSalt and hash.
PreSave(doc) ==
    [ earlyNext |-> ~doc.modified,
      hashCalls |-> 1,
      threw     |-> doc.password = None,
      password  |-> IF doc.password = None THEN None
                    ELSE Some(Hash(doc.password[1])) ]

\* userSchema.methods.matchPassword
matchPassword(stored, entered) == stored = Hash(entered)

\* userSchema.methods.getSignedJwtToken at clock value t
getSignedJwtToken(u, t) ==
    [ id |-> u._id, email |-> u.email, iat |-> t, exp |-> t + JWT_EXPIRE,
      sig |-> "valid" ]

NoSave == [ user |-> 0, modified |-> FALSE, selected |-> FALSE, hashCalls |-> 0,
            earlyNext |-> FALSE, plain |-> None, before |-> None, after |-> None ]

\* new User({...password}).save(): password is set, so isModified is true
\* and save waits for the hook's promise before writing.  At most cap
\* accounts are ever registered.
Register(p, cap) ==
    /\ nextUid <= cap
    /\ LET h == PreSave([password |-> Some(p), modified |-> TRUE])
       IN /\ users' = users \cup
                 { [ _id |-> nextUid, email |-> EmailOf(nextUid),
                     password |-> h.password[1], role |-> "user" ] }
          /\ lastSave' = [ user |-> nextUid, modified |-> TRUE, selected |-> TRUE,
                           hashCalls |-> h.hashCalls, earlyNext |-> h.earlyNext,
                           plain |-> Some(p), before |-> None,
                           after |-> h.password ]
    /\ nextUid' = nextUid + 1
    /\ UNCHANGED <<now, issued, txs, nextId, reqs, pager>>

\* user.password = p; user.save()
ChangePassword(id, p) ==
    /\ \E u \in UserById(users, id) :
         LET h == PreSave([password |-> Some(p), modified |-> TRUE])
         IN /\ users' = (users \ {u}) \cup {[u EXCEPT !.password = h.password[1]]}
            /\ lastSave' = [ user |-> id, modified |-> TRUE, selected |-> TRUE,
                             hashCalls |-> h.hashCalls, earlyNext |-> h.earlyNext,
                             plain |-> Some(p), before |-> Some(u.password),
                             after |-> h.password ]
    /\ UNCHANGED <<nextUid, now, issued, txs, nextId, reqs, pager>>

\* A save that changes another field only (role here).  The document was
\* loaded with the password (selected) or without it.  The hook has already
\* called next(), so the write does not wait for the hash: it carries either
\* the password as loaded or, when the hash finished first, the re-hashed
\* one (raced).
SaveProfile(id, role, selected, raced) ==
    /\ \E u \in UserById(users, id) :
         /\ Len(u.password) <= MaxHashDepth
         /\ LET doc == [ password |-> IF selected THEN Some(u.password) ELSE None,
                         modified |-> FALSE ]
                h == PreSave(doc)
                stored == IF raced /\ ~h.threw THEN h.password[1] ELSE u.password
            IN /\ users' = (users \ {u}) \cup
                      {[u EXCEPT !.password = stored, !.role = role]}
               /\ lastSave' = [ user |-> id, modified |-> FALSE,
                                selected |-> selected,
                                hashCalls |-> h.hashCalls,
                                earlyNext |-> h.earlyNext,
                                plain |-> None, before |-> Some(u.password),
                                after |-> Some(stored) ]
    /\ UNCHANGED <<nextUid, now, issued, txs, nextId, reqs, pager>>

\* The user document is removed from the collection.
DeleteUser(id) ==
    /\ \E u \in UserById(users, id) : users' = users \ {u}
    /\ UNCHANGED <<nextUid, lastSave, now, issued, txs, nextId, reqs, pager>>

\* A login or registration response: sendTokenResponse calls
\* user.getSignedJwtToken() and hands the token to the client.
IssueToken(id) ==
    /\ Cardinality(issued) < MaxTokens
    /\ \E u \in UserById(users, id) :
         issued' = issued \cup {getSignedJwtToken(u, now)}
    /\ UNCHANGED <<users, nextUid, lastSave, now, txs, nextId, reqs, pager>>

Tick ==
    /\ now < MaxTime
    /\ now' = now + 1
    /\ UNCHANGED <<users, nextUid, lastSave, issued, txs, nextId, reqs, pager>>

\* ------------------------------------------------------- middleware/auth.js
MsgLogin == "Vui long dang nhap de truy cap"
MsgNoUser == "Nguoi dung khong ton tai"
MsgBadToken == "Token khong hop le hoac da het han"
MsgForbidden == "Ban khong co quyen truy cap"

NoRes ==
    [ status |-> 0, success |-> FALSE, message |-> "", data |-> <<>>,
      count |-> 0, total |-> 0, page |-> 0, pages |-> 0, errors |-> FALSE,
      error |-> "" ]

Fail(status, message, error) ==
    [NoRes EXCEPT !.status = status, !.message = message, !.error = error]

Unauthorized(message) == Fail(401, message, "")

NoAuth == [scheme |-> "", cred |-> None]

\* SelectToken looking at the Authorization header first
SelectTokenHeaderFirst(r) ==
    IF r.auth.scheme = "Bearer" /\ r.auth.cred # None THEN r.auth.cred
    ELSE r.cookie

\* The candidate token: req.cookies.token when it is there, else the second
\* word of an Authorization header that starts with 'Bearer'.
SelectToken(r) ==
    IF r.cookie # None THEN r.cookie
    ELSE IF r.auth.scheme = "Bearer" THEN r.auth.cred
    ELSE None

\* Verify with the expiry left unchecked (ignoreExpiration)
VerifyIgnoreExpiration(tok, t) == tok.sig = "valid"

\* jwt.verify(token, JWT_SECRET) at clock value t: throws on a signature that
\* does not match, on a malformed token and on clockTimestamp >= exp.
Verify(tok, t) == tok.sig = "valid" /\ t < tok.exp

\* User.findById(id).select('-password')
FindUserById(us, id) ==
    IF UserById(us, id) = {} THEN None
    ELSE LET u == CHOOSE x \in UserById(us, id) : TRUE
         IN Some([_id |-> u._id, email |-> u.email, role |-> u.role])

\* protect answering 404 when the token's user is gone
protectNotFound(r, us, t) ==
    LET token == SelectToken(r)
    IN IF token = None
       THEN [r EXCEPT !.res = Unauthorized(MsgLogin), !.pc = "done"]
       ELSE IF ~Verify(token[1], t)
       THEN [r EXCEPT !.res = Unauthorized(MsgBadToken), !.pc = "done"]
       ELSE LET found == FindUserById(us, token[1].id)
                looked == [r EXCEPT !.ops = Append(@, "User.findById"),
                                    !.user = found]
            IN IF found = None
               THEN [looked EXCEPT !.res = Fail(404, MsgNoUser, ""),
                                   !.pc = "done"]
               ELSE [looked EXCEPT !.nextCalled = TRUE, !.pc = "handler"]

\* protect reading req.user.id before the null check: the TypeError lands in
\* the catch block
protectDerefFirst(r, us, t) ==
    LET token == SelectToken(r)
    IN IF token = None
       THEN [r EXCEPT !.res = Unauthorized(MsgLogin), !.pc = "done"]
       ELSE IF ~Verify(token[1], t)
       THEN [r EXCEPT !.res = Unauthorized(MsgBadToken), !.pc = "done"]
       ELSE LET found == FindUserById(us, token[1].id)
                looked == [r EXCEPT !.ops = Append(@, "User.findById"),
                                    !.user = found]
            IN IF found = None
               THEN [looked EXCEPT !.res = Unauthorized(MsgBadToken),
                                   !.pc = "done"]
               ELSE [looked EXCEPT !.nextCalled = TRUE, !.pc = "handler"]

\* exports.protect, applied to request r against the user collection us at
\* clock value t; the result is the request as protect leaves it.
protect(r, us, t) ==
    LET token == SelectToken(r)
    IN IF token = None
       THEN [r EXCEPT !.res = Unauthorized(MsgLogin), !.pc = "done"]
       ELSE IF ~Verify(token[1], t)
       THEN [r EXCEPT !.res = Unauthorized(MsgBadToken), !.pc = "done"]
       ELSE LET found == FindUserById(us, token[1].id)
                looked == [r EXCEPT !.ops = Append(@, "User.findById"),
                                    !.user = found]
            IN IF found = None
               THEN [looked EXCEPT !.res = Unauthorized(MsgNoUser),
                                   !.pc = "done"]
               ELSE [looked EXCEPT !.nextCalled = TRUE, !.pc = "handler"]

\* authorize answering 403 to the roles it is given and letting the others by
authorizeInverted(roles, r) ==
    IF r.user = None
    THEN [r EXCEPT !.thrown = TRUE, !.pc = "done"]
    ELSE IF r.user[1].role \in roles
    THEN [r EXCEPT !.res = Fail(403, MsgForbidden, ""), !.pc = "done"]
    ELSE [r EXCEPT !.granted = TRUE, !.pc = "granted"]

\* exports.authorize(...roles): req.user.role throws a TypeError when no
\* principal is attached; otherwise 403 or next().
authorize(roles, r) ==
    IF r.user = None
    THEN [r EXCEPT !.thrown = TRUE, !.pc = "done"]
    ELSE IF r.user[1].role \notin roles
    THEN [r EXCEPT !.res = Fail(403, MsgForbidden, ""), !.pc = "done"]
    ELSE [r EXCEPT !.granted = TRUE, !.pc = "granted"]

\* The message of an error the store raises when it cannot serve an operation
StoreError == "store error"

\* protect when User.findById rejects: the lookup is inside the try that
\* holds jwt.verify, and the catch answers for both.
protectStoreDown(r, t) ==
    LET token == SelectToken(r)
    IN IF token = None
       THEN [r EXCEPT !.res = Unauthorized(MsgLogin), !.pc = "done"]
       ELSE IF ~Verify(token[1], t)
       THEN [r EXCEPT !.res = Unauthorized(MsgBadToken), !.pc = "done"]
       ELSE [r EXCEPT !.ops = Append(@, "User.findById"),
                      !.rejected = Some("User.findById"),
                      !.res = Unauthorized(MsgBadToken), !.pc = "done"]

Protect(q) ==
    /\ reqs[q].pc = "protect"
    /\ reqs' = [reqs EXCEPT ![q] = protect(reqs[q], users, now)]
    /\ UNCHANGED <<users, nextUid, lastSave, now, issued, txs, nextId, pager>>

\* The store fails the user lookup of a request whose token verifies.
ProtectStoreDown(q) ==
    /\ reqs[q].pc = "protect"
    /\ SelectToken(reqs[q]) # None
    /\ Verify(SelectToken(reqs[q])[1], now)
    /\ reqs' = [reqs EXCEPT ![q] = protectStoreDown(reqs[q], now)]
    /\ UNCHANGED <<users, nextUid, lastSave, now, issued, txs, nextId, pager>>

\* Routes mounted as (protect, authorize(...roles), handler) and the roles
\* each one lets by
GatedRoutes == {"admin", "member"}
RolesOf(route) == IF route = "admin" THEN {"admin"} ELSE {"user", "admin"}

Authorize(q) ==
    /\ reqs[q].pc = "handler"
    /\ reqs[q].route \in GatedRoutes
    /\ reqs' = [reqs EXCEPT ![q] = authorize(RolesOf(reqs[q].route), reqs[q])]
    /\ UNCHANGED <<users, nextUid, lastSave, now, issued, txs, nextId, pager>>

\* -------------------------------------------------- routes/transactions.js
MsgNotFound == "Khong tim thay giao dich"
MsgListError == "Loi khi lay danh sach giao dich"
MsgGetError == "Loi khi lay giao dich"
MsgCreated == "Them giao dich thanh cong"
MsgCreateError == "Loi khi tao giao dich"
MsgUpdated == "Cap nhat giao dich thanh cong"
MsgUpdateError == "Loi khi cap nhat giao dich"
MsgDeleted == "Xoa giao dich thanh cong"
MsgDeleteError == "Loi khi xoa giao dich"
CastError == "Cast to ObjectId failed"

\* A route parameter that is no ObjectId ("abc"); ObjectIds are 1, 2, ...
BadId == 0

Types == {"thu", "chi"}
Sorts == {"date", "-date", "amount", "-amount"}

\* An ISO 8601 text: a calendar day with or without a time of day.  Anything
\* else (day -1 here) fails isISO8601.
Iso(day, tod) == [day |-> day, tod |-> tod]
NotIso == Iso(-1, None)
isISO8601(p) == p.day >= 0

\* new Date(text): a date-only text is midnight of that day.
NewDate(p) == p.day * DayLen + (IF p.tod = None THEN 0 ELSE p.tod[1])

Lower(c) ==
    CASE c = "S" -> "s"
      [] c = "A" -> "a"
      [] c = "F" -> "f"
      [] OTHER -> c

ToLower(text) == [i \in 1..Len(text) |-> Lower(text[i])]

Contains(hay, needle) ==
    \E i \in 0..(Len(hay) - Len(needle)) :
        SubSeq(hay, i + 1, i + Len(needle)) = needle

\* { field: { $regex: pattern, $options: 'i' } } for a pattern without
\* metacharacters: an unanchored, case-insensitive match.
RegexI(text, pattern) == Contains(ToLower(text), ToLower(pattern))

NoBody ==
    [ type |-> None, category |-> None, amount |-> None, description |-> None,
      date |-> None, user |-> None ]

NoQuery ==
    [ page |-> None, limit |-> None, type |-> None, category |-> None,
      startDate |-> None, endDate |-> None, search |-> None, sort |-> None,
      year |-> None ]

Present(o, ok) == o # None /\ ok
Absent(o, ok) == o = None \/ ok

\* The validation chain of GET /
ValidList(qu) ==
    /\ Absent(qu.page, qu.page # None /\ qu.page[1] >= 1)
    /\ Absent(qu.limit, qu.limit # None /\ qu.limit[1] \in 1..MaxLimit)
    /\ Absent(qu.type, qu.type # None /\ qu.type[1] \in Types)
    /\ Absent(qu.startDate, qu.startDate # None /\ isISO8601(qu.startDate[1]))
    /\ Absent(qu.endDate, qu.endDate # None /\ isISO8601(qu.endDate[1]))
    /\ Absent(qu.sort, qu.sort # None /\ qu.sort[1] \in Sorts)

\* The validation chain of POST /
ValidCreate(b) ==
    /\ Present(b.type, b.type # None /\ b.type[1] \in Types)
    /\ Present(b.category, b.category # None /\ b.category[1] # <<>>)
    /\ Present(b.amount, b.amount # None /\ b.amount[1] >= 1)
    /\ Present(b.description, b.description # None /\ b.description[1] # <<>>)
    /\ Present(b.date, b.date # None /\ isISO8601(b.date[1]))

\* The validation chain of PUT /:id
ValidUpdate(b) ==
    /\ Absent(b.type, b.type # None /\ b.type[1] \in Types)
    /\ Absent(b.amount, b.amount # None /\ b.amount[1] >= 1)
    /\ Absent(b.date, b.date # None /\ isISO8601(b.date[1]))

BadRequest == [NoRes EXCEPT !.status = 400, !.errors = TRUE]

PageOf(qu) == IF qu.page = None THEN DefaultPage ELSE qu.page[1]
LimitOf(qu) == IF qu.limit = None THEN DefaultLimit ELSE qu.limit[1]
SkipOf(qu) == (PageOf(qu) - 1) * LimitOf(qu)
SortOf(qu) == IF qu.sort = None THEN "-date" ELSE qu.sort[1]

\* query.type = req.query.type
TypeFilter(t, type) == t.type = type

\* CategoryFilter as a case-insensitive $regex, the way the search matches
CategoryFilterRegex(t, category) == RegexI(t.category, category)

\* query.category = req.query.category
CategoryFilter(t, category) == t.category = category

\* StartFilter with $gt for $gte
StartFilterExclusive(t, startDate) == t.date > NewDate(startDate)

\* query.date.$gte = new Date(req.query.startDate)
StartFilter(t, startDate) == t.date >= NewDate(startDate)

\* query.date.$lte = new Date(req.query.endDate)
EndFilter(t, endDate) == t.date <= NewDate(endDate)

\* query.$or = [{description: {$regex, $options: 'i'}}, {category: ...}]
SearchFilter(t, search) ==
    RegexI(t.description, search) \/ RegexI(t.category, search)

\* The query object GET / builds, as the predicate the store evaluates
Matches(t, owner, qu) ==
    /\ t.user = owner
    /\ qu.type # None => TypeFilter(t, qu.type[1])
    /\ qu.category # None => CategoryFilter(t, qu.category[1])
    /\ qu.startDate # None => StartFilter(t, qu.startDate[1])
    /\ qu.endDate # None => EndFilter(t, qu.endDate[1])
    /\ qu.search # None => SearchFilter(t, qu.search[1])

Find(store, owner, qu) == {t \in store : Matches(t, owner, qu)}

SortKey(t, sort) == IF sort \in {"date", "-date"} THEN t.date ELSE t.amount

InOrder(a, b, sort) ==
    IF sort \in {"date", "amount"}
    THEN SortKey(a, sort) <= SortKey(b, sort)
    ELSE SortKey(a, sort) >= SortKey(b, sort)

\* .sort(sort): every arrangement of the matched documents that is ordered
\* by the sort key; documents with equal keys come in no defined order.
Sorted(S, sort) ==
    { s \in [1..Cardinality(S) -> S] :
        /\ \A i, j \in 1..Cardinality(S) : i # j => s[i] # s[j]
        /\ \A i, j \in 1..Cardinality(S) : i < j => InOrder(s[i], s[j], sort) }

\* .limit(limit).skip(skip)
Window(s, skip, limit) == SubSeq(s, skip + 1, Min(Len(s), skip + limit))

ById(store, id) == {t \in store : t._id = id}

\* FindOne with the user condition left out of the filter
FindOneById(store, id, owner) == {t \in store : t._id = id}

\* Transaction.findOne({ _id, user })
FindOne(store, id, owner) == {t \in store : t._id = id /\ t.user = owner}

AsData(S) == IF S = {} THEN None ELSE Some(CHOOSE t \in S : TRUE)

\* The document Transaction.create(req.body) stores
NewTransaction(id, b) ==
    [ _id |-> id, user |-> b.user[1], type |-> b.type[1],
      category |-> b.category[1], amount |-> b.amount[1],
      description |-> b.description[1], date |-> NewDate(b.date[1]) ]

\* findByIdAndUpdate's $set of the body's fields onto the document
Merge(t, b) ==
    [ _id |-> t._id,
      user |-> IF b.user = None THEN t.user ELSE b.user[1],
      type |-> IF b.type = None THEN t.type ELSE b.type[1],
      category |-> IF b.category = None THEN t.category ELSE b.category[1],
      amount |-> IF b.amount = None THEN t.amount ELSE b.amount[1],
      description |->
          IF b.description = None THEN t.description ELSE b.description[1],
      date |-> IF b.date = None THEN t.date ELSE NewDate(b.date[1]) ]

Op(r, name) == [r EXCEPT !.ops = Append(@, name)]
Respond(r, res) == [r EXCEPT !.res = res, !.pc = "done"]
Ok(status, message, data) ==
    [NoRes EXCEPT !.status = status, !.success = TRUE, !.message = message,
                  !.data = data]
Principal(r) == r.user[1]._id

\* Each handler step below is the code between two awaits, applied to the
\* request r and the Transaction collection; the result is the request and
\* the collection as the step leaves them.
Step(r, store) == [req |-> r, store |-> store]

\* getOne answering 403 for a record that exists under another owner
getOneForbidden(r, store) ==
    LET looked == Op(r, "Transaction.findOne")
        found == FindOne(store, r.id, Principal(r))
    IN IF r.id = BadId
       THEN Step(Respond(looked, Fail(500, MsgGetError, CastError)), store)
       ELSE IF found = {} /\ ById(store, r.id) # {}
       THEN Step(Respond(looked, Fail(403, MsgForbidden, "")), store)
       ELSE IF found = {}
       THEN Step(Respond(looked, Fail(404, MsgNotFound, "")), store)
       ELSE Step(Respond(looked, Ok(200, "", AsData(found))), store)

\* router.get('/:id')
getOne(r, store) ==
    LET looked == Op(r, "Transaction.findOne")
        found == FindOne(store, r.id, Principal(r))
    IN IF r.id = BadId
       THEN Step(Respond(looked, Fail(500, MsgGetError, CastError)), store)
       ELSE IF found = {}
       THEN Step(Respond(looked, Fail(404, MsgNotFound, "")), store)
       ELSE Step(Respond(looked, Ok(200, "", AsData(found))), store)

\* create keeping a user field the body brings
createTrustBody(r, store, id) ==
    IF ~ValidCreate(r.body)
    THEN Step(Respond(r, BadRequest), store)
    ELSE LET body == [r.body EXCEPT
                         !.user = IF @ = None THEN Some(Principal(r)) ELSE @]
             doc == NewTransaction(id, body)
         IN Step(Respond(Op([r EXCEPT !.body = body], "Transaction.create"),
                         Ok(201, MsgCreated, Some(doc))),
                 store \cup {doc})

\* router.post('/'): req.body.user = req.user.id; Transaction.create(req.body)
create(r, store, id) ==
    IF ~ValidCreate(r.body)
    THEN Step(Respond(r, BadRequest), store)
    ELSE LET body == [r.body EXCEPT !.user = Some(Principal(r))]
             doc == NewTransaction(id, body)
         IN Step(Respond(Op([r EXCEPT !.body = body], "Transaction.create"),
                         Ok(201, MsgCreated, Some(doc))),
                 store \cup {doc})

\* router.put('/:id') up to the await of Transaction.findOne
updateLookup(r, store) ==
    LET looked == Op(r, "Transaction.findOne")
        found == FindOne(store, r.id, Principal(r))
    IN IF ~ValidUpdate(r.body)
       THEN Step(Respond(r, BadRequest), store)
       ELSE IF r.id = BadId
       THEN Step(Respond(looked, Fail(500, MsgUpdateError, CastError)), store)
       ELSE IF found = {}
       THEN Step(Respond(looked, Fail(404, MsgNotFound, "")), store)
       ELSE Step([looked EXCEPT !.local = AsData(found), !.pc = "write"], store)

\* router.put('/:id') from Transaction.findByIdAndUpdate(req.params.id,
\* req.body, {new: true}) on: the document is selected by _id alone, and the
\* result is null when no document has that _id any more.
updateWrite(r, store) ==
    LET wrote == Op(r, "Transaction.findByIdAndUpdate")
        cur == ById(store, r.id)
        new == {Merge(t, r.body) : t \in cur}
    IN Step(Respond(wrote, Ok(200, MsgUpdated, AsData(new))),
            (store \ cur) \cup new)

\* router.delete('/:id') up to the await of Transaction.findOne
deleteLookup(r, store) ==
    LET looked == Op(r, "Transaction.findOne")
        found == FindOne(store, r.id, Principal(r))
    IN IF r.id = BadId
       THEN Step(Respond(looked, Fail(500, MsgDeleteError, CastError)), store)
       ELSE IF found = {}
       THEN Step(Respond(looked, Fail(404, MsgNotFound, "")), store)
       ELSE Step([looked EXCEPT !.local = AsData(found), !.pc = "write"], store)

\* router.delete('/:id') from transaction.deleteOne() on: the document's
\* deleteOne removes by its _id.
deleteWrite(r, store) ==
    Step(Respond(Op(r, "Transaction.deleteOne"), Ok(200, MsgDeleted, None)),
         store \ ById(store, r.local[1]._id))

\* router.get('/') up to the await of Transaction.find: `ordered` is the
\* arrangement the store's sort produced for this query.
listFind(r, store, ordered) ==
    IF ~ValidList(r.query)
    THEN Step(Respond(r, BadRequest), store)
    ELSE Step([Op(r, "Transaction.find") EXCEPT
                  !.local = Window(ordered, SkipOf(r.query), LimitOf(r.query)),
                  !.pc = "count"],
              store)

\* listCount reporting floor(total / limit) + 1 pages
listCountFloor(r, store) ==
    LET total == Cardinality(Find(store, Principal(r), r.query))
    IN Step(Respond(Op(r, "Transaction.countDocuments"),
                    [NoRes EXCEPT !.status = 200, !.success = TRUE,
                                  !.count = Len(r.local), !.total = total,
                                  !.page = PageOf(r.query),
                                  !.pages = (total \div LimitOf(r.query)) + 1,
                                  !.data = r.local]),
            store)

\* router.get('/') from Transaction.countDocuments(query) to res.json
listCount(r, store) ==
    LET total == Cardinality(Find(store, Principal(r), r.query))
    IN Step(Respond(Op(r, "Transaction.countDocuments"),
                    [NoRes EXCEPT !.status = 200, !.success = TRUE,
                                  !.count = Len(r.local), !.total = total,
                                  !.page = PageOf(r.query),
                                  !.pages = CeilDiv(total, LimitOf(r.query)),
                                  !.data = r.local]),
            store)

\* ---------------------------------------------------- statistics routes
MsgStatsError == "Lỗi khi lấy thống kê"

\* The calendar: a month is MonthLen days, a year twelve months, year 0
\* begins at date 0.
Months == 1..12
MonthOf(date) == (((date \div DayLen) \div MonthLen) % 12) + 1
getFullYear(date) == (date \div DayLen) \div (MonthLen * 12)
DayIn(year, month) == (year * 12 + (month - 1)) * MonthLen

RECURSIVE SumAmount(_)
SumAmount(S) ==
    IF S = {} THEN 0
    ELSE LET t == CHOOSE x \in S : TRUE
         IN t.amount + SumAmount(S \ {t})

\* The owner's records inside the optional inclusive range [startDate, endDate]
InRange(store, owner, startDate, endDate) ==
    { t \in store : /\ t.user = owner
                    /\ startDate # None => StartFilter(t, startDate[1])
                    /\ endDate # None => EndFilter(t, endDate[1]) }

\* Transaction.getStatistics(userId, startDate, endDate)
getStatistics(store, owner, startDate, endDate) ==
    LET S == InRange(store, owner, startDate, endDate)
        income == SumAmount({t \in S : t.type = "thu"})
        expense == SumAmount({t \in S : t.type = "chi"})
    IN [income |-> income, expense |-> expense, balance |-> income - expense]

\* Transaction.getByCategory(userId, startDate, endDate): one group for each
\* category and kind that occurs
getByCategory(store, owner, startDate, endDate) ==
    LET S == InRange(store, owner, startDate, endDate)
        Group(c, ty) == {t \in S : t.category = c /\ t.type = ty}
    IN { [category |-> t.category, type |-> t.type,
          count |-> Cardinality(Group(t.category, t.type)),
          total |-> SumAmount(Group(t.category, t.type))] : t \in S }

\* Transaction.getByMonth(userId, year): the twelve months of the year, each
\* with its income and expense, zero where the owner has no record
getByMonth(store, owner, year) ==
    LET S(m, ty) == { t \in store : /\ t.user = owner /\ t.type = ty
                                    /\ getFullYear(t.date) = year
                                    /\ MonthOf(t.date) = m }
    IN [ m \in Months |-> [month |-> m, income |-> SumAmount(S(m, "thu")),
                           expense |-> SumAmount(S(m, "chi"))] ]

\* router.get('/stats/summary')
statsSummary(r, store) ==
    Step(Respond(Op(r, "Transaction.getStatistics"),
                 Ok(200, "", Some(getStatistics(store, Principal(r),
                                                r.query.startDate,
                                                r.query.endDate)))),
         store)

\* router.get('/stats/category')
statsCategory(r, store) ==
    Step(Respond(Op(r, "Transaction.getByCategory"),
                 Ok(200, "", Some(getByCategory(store, Principal(r),
                                                r.query.startDate,
                                                r.query.endDate)))),
         store)

\* statsMonthly reading the current year whatever the query says
statsMonthlyThisYear(r, store, t) ==
    Step(Respond(Op(r, "Transaction.getByMonth"),
                 Ok(200, "", getByMonth(store, Principal(r), getFullYear(t)))),
         store)

\* router.get('/stats/monthly'): year = req.query.year || new
\* Date().getFullYear()
statsMonthly(r, store, t) ==
    LET year == IF r.query.year = None THEN getFullYear(t)
                ELSE r.query.year[1]
    IN Step(Respond(Op(r, "Transaction.getByMonth"),
                    Ok(200, "", getByMonth(store, Principal(r), year))),
            store)

\* ------------------------------------------------ a store operation fails
TxRoutes ==
    {"list", "get", "create", "update", "delete", "summary", "category", "monthly"}

\* The store operation the handler of r awaits next
AwaitedOp(r) ==
    CASE r.route = "list" /\ r.pc = "handler" -> "Transaction.find"
      [] r.route = "list" -> "Transaction.countDocuments"
      [] r.route = "create" -> "Transaction.create"
      [] r.route = "update" /\ r.pc = "write" -> "Transaction.findByIdAndUpdate"
      [] r.route = "delete" /\ r.pc = "write" -> "Transaction.deleteOne"
      [] r.route = "summary" -> "Transaction.getStatistics"
      [] r.route = "category" -> "Transaction.getByCategory"
      [] r.route = "monthly" -> "Transaction.getByMonth"
      [] OTHER -> "Transaction.findOne"

\* The message of the handler's catch block
CatchMessage(route) ==
    CASE route = "list" -> MsgListError
      [] route = "get" -> MsgGetError
      [] route = "create" -> MsgCreateError
      [] route = "update" -> MsgUpdateError
      [] route = "delete" -> MsgDeleteError
      [] OTHER -> MsgStatsError

\* The handler of r is about to await a store operation: the validation
\* that precedes the first one has passed.
ReachesStore(r) ==
    /\ r.route \in TxRoutes
    /\ r.pc \in {"handler", "count", "write"}
    /\ r.pc = "handler" /\ r.route = "list" => ValidList(r.query)
    /\ r.pc = "handler" /\ r.route = "create" => ValidCreate(r.body)
    /\ r.pc = "handler" /\ r.route = "update" => ValidUpdate(r.body)

\* A catch block that tries the operation once more before it answers
storeFailsRetry(r) ==
    [Respond(Op(Op(r, AwaitedOp(r)), AwaitedOp(r)),
             Fail(500, CatchMessage(r.route), StoreError))
        EXCEPT !.rejected = Some(AwaitedOp(r))]

\* The awaited operation rejects: control goes to the handler's catch block,
\* which answers 500 with its message and error.message.
storeFails(r) ==
    [Respond(Op(r, AwaitedOp(r)), Fail(500, CatchMessage(r.route), StoreError))
        EXCEPT !.rejected = Some(AwaitedOp(r))]

\* ----------------------------------------------------------------- requests
Idle ==
    [ pc |-> "idle", route |-> "", cookie |-> None, auth |-> NoAuth, id |-> BadId,
      body |-> NoBody, query |-> NoQuery, user |-> None, res |-> NoRes,
      ops |-> <<>>, nextCalled |-> FALSE, local |-> <<>>,
      granted |-> FALSE, thrown |-> FALSE, rejected |-> None ]

Request(route, cookie, auth, id, body, query) ==
    [Idle EXCEPT !.pc = "protect", !.route = route, !.cookie = cookie,
                 !.auth = auth, !.id = id, !.body = body, !.query = query]

\* A client sends request r; the slot's previous exchange is over.
Send(q, r) ==
    /\ reqs[q].pc \in {"idle", "done"}
    /\ reqs' = [reqs EXCEPT ![q] = r]
    /\ UNCHANGED <<users, nextUid, lastSave, now, issued, txs, nextId, pager>>

Handle(q, route, pc, step) ==
    /\ reqs[q].pc = pc
    /\ reqs[q].route = route
    /\ reqs' = [reqs EXCEPT ![q] = step.req]
    /\ txs' = step.store

GetOne(q) ==
    /\ Handle(q, "get", "handler", getOne(reqs[q], txs))
    /\ UNCHANGED <<users, nextUid, lastSave, now, issued, nextId, pager>>

Create(q) ==
    /\ nextId <= MaxTx
    /\ Handle(q, "create", "handler", create(reqs[q], txs, nextId))
    /\ nextId' = IF txs' = txs THEN nextId ELSE nextId + 1
    /\ UNCHANGED <<users, nextUid, lastSave, now, issued, pager>>

UpdateLookup(q) ==
    /\ Handle(q, "update", "handler", updateLookup(reqs[q], txs))
    /\ UNCHANGED <<users, nextUid, lastSave, now, issued, nextId, pager>>

UpdateWrite(q) ==
    /\ Handle(q, "update", "write", updateWrite(reqs[q], txs))
    /\ UNCHANGED <<users, nextUid, lastSave, now, issued, nextId, pager>>

DeleteLookup(q) ==
    /\ Handle(q, "delete", "handler", deleteLookup(reqs[q], txs))
    /\ UNCHANGED <<users, nextUid, lastSave, now, issued, nextId, pager>>

DeleteWrite(q) ==
    /\ Handle(q, "delete", "write", deleteWrite(reqs[q], txs))
    /\ UNCHANGED <<users, nextUid, lastSave, now, issued, nextId, pager>>

ListFind(q) ==
    /\ reqs[q].pc = "handler"
    /\ reqs[q].route = "list"
    /\ \E ordered \in Sorted(Find(txs, Principal(reqs[q]), reqs[q].query),
                             SortOf(reqs[q].query)) :
         Handle(q, "list", "handler", listFind(reqs[q], txs, ordered))
    /\ UNCHANGED <<users, nextUid, lastSave, now, issued, nextId, pager>>

ListCount(q) ==
    /\ Handle(q, "list", "count", listCount(reqs[q], txs))
    /\ UNCHANGED <<users, nextUid, lastSave, now, issued, nextId, pager>>

StoreFails(q) ==
    /\ ReachesStore(reqs[q])
    /\ reqs' = [reqs EXCEPT ![q] = storeFails(reqs[q])]
    /\ UNCHANGED <<users, nextUid, lastSave, now, issued, txs, nextId, pager>>

StatsSummary(q) ==
    /\ Handle(q, "summary", "handler", statsSummary(reqs[q], txs))
    /\ UNCHANGED <<users, nextUid, lastSave, now, issued, nextId, pager>>

StatsCategory(q) ==
    /\ Handle(q, "category", "handler", statsCategory(reqs[q], txs))
    /\ UNCHANGED <<users, nextUid, lastSave, now, issued, nextId, pager>>

StatsMonthly(q) ==
    /\ Handle(q, "monthly", "handler", statsMonthly(reqs[q], txs, now))
    /\ UNCHANGED <<users, nextUid, lastSave, now, issued, nextId, pager>>

\* --------------------------------------------------------- specifications
IdlePager == [phase |-> "idle", query |-> NoQuery, page |-> 0, acc |-> <<>>]

InitBase ==
    /\ users = {}
    /\ nextUid = 1
    /\ lastSave = NoSave
    /\ now = 0
    /\ issued = {}
    /\ txs = {}
    /\ nextId = 1
    /\ reqs = [q \in Slots |-> Idle]
    /\ pager = IdlePager

\* The account of user id as registered with plaintext p, and the token a
\* login at clock value 0 gave it.
Account(id, p) ==
    [_id |-> id, email |-> EmailOf(id), password |-> Hash(p), role |-> "user"]
TokenOf(id) == getSignedJwtToken(Account(id, <<"p1">>), 0)

\* Every user registered and logged in, nothing else done yet.
InitLoggedIn ==
    /\ users = {Account(id, <<"p1">>) : id \in 1..MaxUsers}
    /\ nextUid = MaxUsers + 1
    /\ lastSave = NoSave
    /\ now = 0
    /\ issued = {TokenOf(id) : id \in 1..MaxUsers}
    /\ txs = {}
    /\ nextId = 1
    /\ reqs = [q \in Slots |-> Idle]
    /\ pager = IdlePager

Salary == <<"S", "a">>
Food == <<"F", "o">>

CreateBodies ==
    { [NoBody EXCEPT !.type = Some(ty), !.category = Some(Salary),
                     !.amount = Some(1), !.description = Some(<<"x">>),
                     !.date = Some(Iso(0, None)), !.user = who]
        : ty \in {"thu", "bad"}, who \in {None, Some(1)} }

UpdateBodies ==
    { [NoBody EXCEPT !.amount = Some(2)], [NoBody EXCEPT !.type = Some("bad")] }
    \cup { [NoBody EXCEPT !.user = Some(u)] : u \in 1..MaxUsers }

\* The requests of the transaction routes sent by logged-in clients
TxRequests ==
    { Request("get", Some(TokenOf(u)), NoAuth, id, NoBody, NoQuery)
        : u \in 1..MaxUsers, id \in 0..MaxTx }
    \cup { Request("delete", Some(TokenOf(u)), NoAuth, id, NoBody, NoQuery)
        : u \in 1..MaxUsers, id \in 0..MaxTx }
    \cup { Request("update", Some(TokenOf(u)), NoAuth, id, b, NoQuery)
        : u \in 1..MaxUsers, id \in 0..MaxTx, b \in UpdateBodies }
    \cup { Request("create", Some(TokenOf(u)), NoAuth, BadId, b, NoQuery)
        : u \in 1..MaxUsers, b \in CreateBodies }

\* One client at a time: every request is answered before the next is sent.
Next ==
    \/ \E r \in TxRequests : Send(1, r)
    \/ Protect(1)
    \/ GetOne(1)
    \/ Create(1)
    \/ UpdateLookup(1)
    \/ UpdateWrite(1)
    \/ DeleteLookup(1)
    \/ DeleteWrite(1)

Spec == InitLoggedIn /\ [][Next]_vars

\* Saves of User documents alone
NextUser ==
    \/ \E p \in Plaintexts : Register(p, MaxUsers)
    \/ \E id \in 1..MaxUsers, p \in Plaintexts : ChangePassword(id, p)
    \/ \E id \in 1..MaxUsers, role \in {"user", "admin"},
          selected \in BOOLEAN, raced \in BOOLEAN :
         SaveProfile(id, role, selected, raced)
    \/ \E id \in 1..MaxUsers : DeleteUser(id)

SpecUser == InitBase /\ [][NextUser]_vars

\* A token nobody issued: user 1's payload under a signature that does not
\* verify.
Forged ==
    [id |-> 1, email |-> EmailOf(1), iat |-> 0, exp |-> JWT_EXPIRE, sig |-> "bad"]

Presentable == issued \cup {Forged}

Cookies == {None} \cup {Some(t) : t \in Presentable}

Authorizations ==
    {NoAuth, [scheme |-> "Bearer", cred |-> None]}
    \cup { [scheme |-> s, cred |-> Some(t)]
            : s \in {"Bearer", "Basic"}, t \in Presentable }

\* GET /:id under every combination of the two token carriers, and GET /
\* with a cookie or with no token at all
AuthRequests ==
    { Request("get", c, a, 1, NoBody, NoQuery)
        : c \in Cookies, a \in Authorizations }
    \cup { Request("list", c, NoAuth, BadId, NoBody, NoQuery) : c \in Cookies }

\* Accounts come and go, tokens are issued and age, one request at a time is
\* served.
NextAuth ==
    \/ Register(<<"p1">>, MaxAccounts)
    \/ \E id \in 1..MaxAccounts : DeleteUser(id)
    \/ \E id \in 1..MaxAccounts : IssueToken(id)
    \/ Tick
    \/ \E r \in AuthRequests : Send(1, r)
    \/ Protect(1)
    \/ ListFind(1)
    \/ ListCount(1)
    \/ GetOne(1)

SpecAuth == InitBase /\ [][NextAuth]_vars

\* Texts of the list checks: "Sa" and "Fo" as categories, "p" and "xSA" as
\* descriptions
Pay == <<"p">>
Sale == <<"x", "S", "A">>

Tx(id, owner, type, category, amount, description, date) ==
    [ _id |-> id, user |-> owner, type |-> type, category |-> category,
      amount |-> amount, description |-> description, date |-> date ]

\* Collections of the filter checks: one record of any owner, kind, category,
\* description and date around midnight of day 1, alone or beside a fixed
\* record of user 1.
ListStores ==
    { {Tx(1, o, ty, c, 1, d, dt)} \cup rest
        : o \in 1..MaxUsers, ty \in Types, c \in {Salary, Food},
          d \in {Pay, Sale}, dt \in (DayLen - 1)..(DayLen + 1),
          rest \in {{}, {Tx(2, 1, "chi", Food, 1, Pay, DayLen)}} }

ListQueries ==
    { [NoQuery EXCEPT !.type = ty, !.category = c, !.startDate = sd,
                      !.endDate = ed, !.search = se]
        : ty \in {None, Some("thu"), Some("chi")},
          c \in {None, Some(Salary), Some(<<"s", "a">>)},
          sd \in {None, Some(Iso(1, None))},
          ed \in {None, Some(Iso(1, None)), Some(Iso(1, Some(DayLen - 1)))},
          se \in {None, Some(<<"s", "a">>), Some(<<"O">>)} }
    \cup { [NoQuery EXCEPT !.sort = Some("newest")],
           [NoQuery EXCEPT !.limit = Some(MaxLimit + 1)] }

InitList ==
    /\ users = {Account(id, <<"p1">>) : id \in 1..MaxUsers}
    /\ nextUid = MaxUsers + 1
    /\ lastSave = NoSave
    /\ now = 0
    /\ issued = {TokenOf(id) : id \in 1..MaxUsers}
    /\ txs \in ListStores
    /\ nextId = 3
    /\ reqs = [q \in Slots |-> Idle]
    /\ pager = IdlePager

\* User 1 lists a collection that stays as it is.
NextList ==
    \/ \E qu \in ListQueries :
         Send(1, Request("list", Some(TokenOf(1)), NoAuth, BadId, NoBody, qu))
    \/ Protect(1)
    \/ ListFind(1)
    \/ ListCount(1)

SpecList == InitList /\ [][NextList]_vars

\* Collections of the paging checks: up to MaxPaged records that differ in
\* date and amount; the first may belong to user 2.
PagedStores ==
    UNION { { { Tx(i, IF i = 1 THEN o ELSE 1, "chi", Food, am[i], Pay, dt[i])
                 : i \in 1..n }
               : o \in 1..MaxUsers,
                 am \in [1..n -> 1..2],
                 dt \in [1..n -> DayLen..(DayLen + 1)] }
            : n \in 0..MaxPaged }

PagedQueries ==
    { [NoQuery EXCEPT !.sort = so, !.limit = li]
        : so \in {None} \cup {Some(x) : x \in Sorts},
          li \in {None, Some(1), Some(2)} }

InitPaged ==
    /\ users = {Account(id, <<"p1">>) : id \in 1..MaxUsers}
    /\ nextUid = MaxUsers + 1
    /\ lastSave = NoSave
    /\ now = 0
    /\ issued = {TokenOf(id) : id \in 1..MaxUsers}
    /\ txs \in PagedStores
    /\ nextId = MaxPaged + 1
    /\ reqs = [q \in Slots |-> Idle]
    /\ pager = IdlePager

PageRequest(qu, page) ==
    Request("list", Some(TokenOf(1)), NoAuth, BadId, NoBody,
            [qu EXCEPT !.page = Some(page)])

\* A client of user 1 starts reading a listing page by page.
PagerStart(q, qu) ==
    /\ pager.phase = "idle"
    /\ reqs[q].pc \in {"idle", "done"}
    /\ reqs' = [reqs EXCEPT ![q] = PageRequest(qu, 1)]
    /\ pager' = [phase |-> "paging", query |-> qu, page |-> 1, acc |-> <<>>]
    /\ UNCHANGED <<users, nextUid, lastSave, now, issued, txs, nextId>>

\* The client appends the page it received and asks for the next one, up to
\* the page count the response reports.
PagerCollect(q) ==
    /\ pager.phase = "paging"
    /\ reqs[q].pc = "done"
    /\ LET acc == pager.acc \o reqs[q].res.data
       IN IF reqs[q].res.status = 200 /\ pager.page < reqs[q].res.pages
          THEN /\ pager' = [pager EXCEPT !.acc = acc, !.page = @ + 1]
               /\ reqs' = [reqs EXCEPT ![q] = PageRequest(pager.query, pager.page + 1)]
          ELSE /\ pager' = [pager EXCEPT !.acc = acc, !.phase = "complete"]
               /\ reqs' = reqs
    /\ UNCHANGED <<users, nextUid, lastSave, now, issued, txs, nextId>>

NextPaged ==
    \/ \E qu \in PagedQueries : PagerStart(1, qu)
    \/ PagerCollect(1)
    \/ Protect(1)
    \/ ListFind(1)
    \/ ListCount(1)

SpecPaged == InitPaged /\ [][NextPaged]_vars

\* Two clients of user 1 at once on a collection that holds one record of
\* theirs: the first lists or updates that record, the second creates,
\* deletes, or hands the record to user 2.
RaceRecord == Tx(1, 1, "chi", Food, 1, Pay, DayLen)

InitRace ==
    /\ users = {Account(id, <<"p1">>) : id \in 1..MaxUsers}
    /\ nextUid = MaxUsers + 1
    /\ lastSave = NoSave
    /\ now = 0
    /\ issued = {TokenOf(id) : id \in 1..MaxUsers}
    /\ txs = {RaceRecord}
    /\ nextId = 2
    /\ reqs = [q \in Slots |-> Idle]
    /\ pager = IdlePager

RaceQueries ==
    { NoQuery, [NoQuery EXCEPT !.limit = Some(1)],
      [NoQuery EXCEPT !.limit = Some(1), !.page = Some(2)] }

RaceFirst ==
    { Request("list", Some(TokenOf(1)), NoAuth, BadId, NoBody, qu)
        : qu \in RaceQueries }
    \cup { Request("update", Some(TokenOf(1)), NoAuth, 1,
                   [NoBody EXCEPT !.amount = Some(2)], NoQuery) }

RaceSecond ==
    { Request("create", Some(TokenOf(1)), NoAuth, BadId,
              [NoBody EXCEPT !.type = Some("chi"), !.category = Some(Food),
                             !.amount = Some(1), !.description = Some(Pay),
                             !.date = Some(Iso(1, None))], NoQuery),
      Request("delete", Some(TokenOf(1)), NoAuth, 1, NoBody, NoQuery),
      Request("update", Some(TokenOf(1)), NoAuth, 1,
              [NoBody EXCEPT !.user = Some(2)], NoQuery) }

NextRace ==
    \/ \E r \in RaceFirst : Send(1, r)
    \/ \E r \in RaceSecond : Send(2, r)
    \/ \E q \in Slots : Protect(q)
    \/ ListFind(1)
    \/ ListCount(1)
    \/ Create(2)
    \/ \E q \in Slots : UpdateLookup(q)
    \/ \E q \in Slots : UpdateWrite(q)
    \/ DeleteLookup(2)
    \/ DeleteWrite(2)

SpecRace == InitRace /\ [][NextRace]_vars

\* Accounts of both roles, and requests to role-gated routes under every
\* combination of the two token carriers
RoleOf(id) == IF id = 1 THEN "user" ELSE "admin"

InitRole ==
    /\ users = {[Account(id, <<"p1">>) EXCEPT !.role = RoleOf(id)] : id \in 1..MaxUsers}
    /\ nextUid = MaxUsers + 1
    /\ lastSave = NoSave
    /\ now = 0
    /\ issued = {TokenOf(id) : id \in 1..MaxUsers}
    /\ txs = {}
    /\ nextId = 1
    /\ reqs = [q \in Slots |-> Idle]
    /\ pager = IdlePager

RoleRequests ==
    { Request(route, c, a, BadId, NoBody, NoQuery)
        : route \in GatedRoutes, c \in Cookies, a \in Authorizations }

NextRole ==
    \/ \E r \in RoleRequests : Send(1, r)
    \/ Protect(1)
    \/ Authorize(1)

SpecRole == InitRole /\ [][NextRole]_vars

\* Collections of the statistics checks: one record of any owner and kind in
\* the first or last month of year 0 or 1, alone or beside an income of user
\* 1 in January of year 0; or no record at all.
StatsStores ==
    {{}} \cup
    { {Tx(1, o, ty, Food, 1, Pay, DayIn(y, m) * DayLen)} \cup rest
        : o \in 1..MaxUsers, ty \in Types, y \in {0, 1}, m \in {1, 12},
          rest \in {{}, {Tx(2, 1, "thu", Salary, 2, Pay, DayIn(0, 1) * DayLen + 1)}} }

StatsRanges ==
    { [NoQuery EXCEPT !.startDate = sd, !.endDate = ed]
        : sd \in {None, Some(Iso(DayIn(0, 12), None))},
          ed \in {None, Some(Iso(DayIn(0, 12), None))} }

StatsRequests ==
    { Request(route, Some(TokenOf(1)), NoAuth, BadId, NoBody, qu)
        : route \in {"summary", "category"}, qu \in StatsRanges }
    \cup { Request("monthly", Some(TokenOf(1)), NoAuth, BadId, NoBody,
                   [NoQuery EXCEPT !.year = y])
            : y \in {None, Some(0), Some(1)} }

InitStats ==
    /\ users = {Account(id, <<"p1">>) : id \in 1..MaxUsers}
    /\ nextUid = MaxUsers + 1
    /\ lastSave = NoSave
    /\ now = 0
    /\ issued = {TokenOf(id) : id \in 1..MaxUsers}
    /\ txs \in StatsStores
    /\ nextId = 3
    /\ reqs = [q \in Slots |-> Idle]
    /\ pager = IdlePager

NextStats ==
    \/ \E r \in StatsRequests : Send(1, r)
    \/ Protect(1)
    \/ StatsSummary(1)
    \/ StatsCategory(1)
    \/ StatsMonthly(1)

SpecStats == InitStats /\ [][NextStats]_vars

\* One client of user 1 on every transaction route, with bodies and queries
\* that pass and that fail validation and with tokens that verify and that do
\* not, against a store that can fail any operation
FailRequests ==
    { Request(route, Some(TokenOf(1)), NoAuth, 1, NoBody, NoQuery)
        : route \in {"get", "delete", "list", "summary", "category", "monthly"} }
    \cup { Request("list", Some(TokenOf(1)), NoAuth, BadId, NoBody,
                   [NoQuery EXCEPT !.page = Some(0)]) }
    \cup { Request("update", Some(TokenOf(1)), NoAuth, 1, b, NoQuery)
            : b \in { [NoBody EXCEPT !.amount = Some(2)],
                      [NoBody EXCEPT !.type = Some("bad")] } }
    \cup { Request("create", Some(TokenOf(1)), NoAuth, BadId, b, NoQuery)
            : b \in CreateBodies }
    \cup { Request("get", c, NoAuth, 1, NoBody, NoQuery)
            : c \in {None, Some(Forged)} }

NextFail ==
    \/ \E r \in FailRequests : Send(1, r)
    \/ Protect(1)
    \/ ProtectStoreDown(1)
    \/ StoreFails(1)
    \/ GetOne(1)
    \/ Create(1)
    \/ UpdateLookup(1)
    \/ UpdateWrite(1)
    \/ DeleteLookup(1)
    \/ DeleteWrite(1)
    \/ ListFind(1)
    \/ ListCount(1)
    \/ StatsSummary(1)
    \/ StatsCategory(1)
    \/ StatsMonthly(1)

SpecFail == InitRace /\ [][NextFail]_vars

\* ------------------------------------------------------------------ claims
NotFound == Fail(404, MsgNotFound, "")

ByIdRoutes == {"get", "update", "delete"}

\* The request in slot q has passed validation and is about to look up, under
\* its principal, the id of a record that another user owns.
ForeignLookup(q) ==
    /\ reqs[q].pc = "handler"
    /\ reqs[q].route \in ByIdRoutes
    /\ reqs[q].route = "update" => ValidUpdate(reqs[q].body)
    /\ \E t \in txs : t._id = reqs[q].id /\ t.user # Principal(reqs[q])

\* C1: whatever requests came before, a GET, PUT or DELETE /:id that reaches
\* its lookup under principal B with the id of a record owned by A # B is
\* answered 404 with no data, is over with that answer, and leaves the
\* collection (so that record) as it was.
C1_CrossUserNotFound ==
    [][ \A q \in Slots :
          ForeignLookup(q) /\ reqs'[q] # reqs[q] =>
            /\ reqs'[q].res = NotFound
            /\ reqs'[q].res.data = None
            /\ reqs'[q].pc = "done"
            /\ txs' = txs ]_vars

C1_Witness ==
    /\ reqs[1].pc = "done"
    /\ reqs[1].route = "update"
    /\ reqs[1].res = NotFound
    /\ reqs[1].body.amount = Some(2)
    /\ \E t \in txs :
         t._id = reqs[1].id /\ t.user # Principal(reqs[1]) /\ t.amount = 1

OwnedBy(store, owner) == {t \in store : t.user = owner}

\* C10: under principal B the answer of GET, PUT and DELETE /:id is the answer
\* the same request gets from the collection with every other user's records
\* taken out: an id that another user owns is answered exactly as an id that
\* does not exist, and two collections that differ only in other users'
\* records answer B alike.
C10_NoExistenceLeak ==
    [][ \A q \in Slots :
          LET r == reqs[q]
              own == OwnedBy(txs, Principal(r))
          IN /\ r.pc = "handler" /\ r.route = "get" /\ reqs'[q] # r
                  => reqs'[q] = getOne(r, own).req
             /\ r.pc = "handler" /\ r.route = "update" /\ reqs'[q] # r
                  => reqs'[q] = updateLookup(r, own).req
             /\ r.pc = "handler" /\ r.route = "delete" /\ reqs'[q] # r
                  => reqs'[q] = deleteLookup(r, own).req
             /\ r.pc = "write" /\ r.route = "update" /\ reqs'[q] # r
                  => reqs'[q] = updateWrite(r, own).req
             /\ r.pc = "write" /\ r.route = "delete" /\ reqs'[q] # r
                  => reqs'[q] = deleteWrite(r, own).req ]_vars

C10_Witness ==
    /\ reqs[1].pc = "done"
    /\ reqs[1].route = "get"
    /\ reqs[1].res = NotFound
    /\ \E t \in txs : t._id = reqs[1].id /\ t.user # Principal(reqs[1])
    /\ reqs[1].res = getOne([reqs[1] EXCEPT !.id = MaxTx + 1], txs).req.res

\* The token a request presents, by the carriers alone
Presented(r) ==
    IF r.cookie # None THEN r.cookie
    ELSE IF r.auth.scheme = "Bearer" THEN r.auth.cred
    ELSE None

\* A token verifies when getSignedJwtToken issued it and its expiry lies ahead
Genuine(tok) == tok \in issued
Expired(tok) == now >= tok.exp

HandlerOps(r) == {i \in 1..Len(r.ops) : r.ops[i] # "User.findById"}

Rejected(r) == r.res.status = 401 /\ r.pc = "done" /\ ~r.nextCalled /\ HandlerOps(r) = {}

\* Slot q's request is taken through protect by this step.
Gated(q) == reqs[q].pc = "protect" /\ reqs'[q] # reqs[q]

\* C2: a request's Transaction operations all come after protect has looked
\* the user up, called next and attached the principal; when no token is
\* presented, when the token does not verify and when its user is not in the
\* collection, protect answers 401, does not call next, and the request
\* performs no Transaction operation.
C2_GateBeforeHandlers ==
    /\ [](\A q \in Slots :
            /\ HandlerOps(reqs[q]) # {} \/ reqs[q].pc \in {"handler", "count", "write"}
                 => /\ reqs[q].nextCalled
                    /\ reqs[q].user # None
                    /\ reqs[q].ops[1] = "User.findById"
            /\ reqs[q].res.status = 401 => Rejected(reqs[q]))
    /\ [][ \A q \in Slots : Gated(q) =>
             LET tok == Presented(reqs[q])
                 failed == \/ tok = None
                           \/ ~Genuine(tok[1]) \/ Expired(tok[1])
                           \/ UserById(users, tok[1].id) = {}
             IN IF failed THEN Rejected(reqs'[q])
                ELSE /\ reqs'[q].nextCalled
                     /\ reqs'[q].pc = "handler"
                     /\ reqs'[q].user # None
                     /\ reqs'[q].user[1]._id = tok[1].id
                     /\ reqs'[q].res = NoRes ]_vars

C2_Witness ==
    /\ reqs[1].pc = "done"
    /\ reqs[1].nextCalled
    /\ reqs[1].user # None
    /\ reqs[1].ops = <<"User.findById", "Transaction.find",
                      "Transaction.countDocuments">>
    /\ reqs[1].res.status = 200

\* C4: protect verifies the cookie token when there is one, else the token of
\* a Bearer Authorization header; a header token is not tried when the cookie
\* token fails, and with no token from either carrier the answer is 401 'no
\* token' with no verification and no user lookup.
C4_CookieThenBearer ==
    [][ \A q \in Slots : Gated(q) =>
          LET r == reqs[q]
              cookieGood == /\ r.cookie # None
                            /\ Genuine(r.cookie[1]) /\ ~Expired(r.cookie[1])
              headerGood == /\ r.auth.scheme = "Bearer" /\ r.auth.cred # None
                            /\ Genuine(r.auth.cred[1]) /\ ~Expired(r.auth.cred[1])
          IN /\ r.cookie # None /\ cookieGood
                  => /\ reqs'[q].ops = <<"User.findById">>
                     /\ reqs'[q].user = FindUserById(users, r.cookie[1].id)
             /\ r.cookie # None /\ ~cookieGood
                  => /\ reqs'[q].res = Unauthorized(MsgBadToken)
                     /\ Rejected(reqs'[q])
                     /\ reqs'[q].ops = <<>>
             /\ r.cookie = None /\ headerGood
                  => /\ reqs'[q].ops = <<"User.findById">>
                     /\ reqs'[q].user = FindUserById(users, r.auth.cred[1].id)
             /\ r.cookie = None /\ (r.auth.scheme # "Bearer" \/ r.auth.cred = None)
                  => /\ reqs'[q].res = Unauthorized(MsgLogin)
                     /\ Rejected(reqs'[q])
                     /\ reqs'[q].ops = <<>>
                     /\ reqs'[q].user = None ]_vars

C4_Witness ==
    /\ reqs[1].pc = "done"
    /\ reqs[1].cookie = Some(Forged)
    /\ reqs[1].auth.scheme = "Bearer"
    /\ reqs[1].auth.cred # None
    /\ Genuine(reqs[1].auth.cred[1])
    /\ ~Expired(reqs[1].auth.cred[1])
    /\ UserById(users, reqs[1].auth.cred[1].id) # {}
    /\ reqs[1].res = Unauthorized(MsgBadToken)

\* C5: a request whose token verifies while its user is no longer in the
\* collection is answered 401 with the user-does-not-exist message, which is
\* not the invalid-or-expired one; next is not called and the request ends
\* with that answer.
C5_UnknownPrincipal ==
    [][ \A q \in Slots : Gated(q) =>
          LET tok == Presented(reqs[q])
          IN tok # None /\ Genuine(tok[1]) /\ ~Expired(tok[1])
             /\ UserById(users, tok[1].id) = {}
               => /\ reqs'[q].res = Unauthorized(MsgNoUser)
                  /\ reqs'[q].res # Unauthorized(MsgBadToken)
                  /\ Rejected(reqs'[q])
                  /\ reqs'[q].user = None ]_vars

C5_Witness ==
    /\ reqs[1].pc = "done"
    /\ Presented(reqs[1]) # None
    /\ Genuine(Presented(reqs[1])[1])
    /\ UserById(users, Presented(reqs[1])[1].id) = {}
    /\ reqs[1].res = Unauthorized(MsgNoUser)
    /\ ~reqs[1].nextCalled

\* C6: every issued token expires JWT_EXPIRE after it was issued, and a token
\* presented at or after its expiry is answered 401 invalid-or-expired,
\* whether its signature is genuine or not; the request reaches no handler.
C6_ExpiredRejected ==
    /\ [](\A t \in issued : t.exp = t.iat + JWT_EXPIRE /\ t.iat <= now)
    /\ [][ \A q \in Slots : Gated(q) =>
             LET tok == Presented(reqs[q])
             IN tok # None /\ Expired(tok[1])
                  => /\ reqs'[q].res = Unauthorized(MsgBadToken)
                     /\ Rejected(reqs'[q])
                     /\ reqs'[q].ops = <<>> ]_vars

C6_Witness ==
    /\ reqs[1].pc = "done"
    /\ reqs[1].cookie # None
    /\ Genuine(reqs[1].cookie[1])
    /\ Expired(reqs[1].cookie[1])
    /\ UserById(users, reqs[1].cookie[1].id) # {}
    /\ reqs[1].res = Unauthorized(MsgBadToken)
    /\ HandlerOps(reqs[1]) = {}

\* C3: after every save the stored password is the hash of a plaintext: a
\* save that set the password ran the hash once, on the new plaintext, and a
\* save that did not touch the password ran no hash and stored the password
\* as it was.
C3_HashOnlyWhenModified ==
    /\ \A u \in users : \E p \in Plaintexts : u.password = Hash(p)
    /\ lastSave.user # 0 /\ lastSave.modified
         => /\ lastSave.hashCalls = 1
            /\ lastSave.after = Some(Hash(lastSave.plain[1]))
    /\ lastSave.user # 0 /\ ~lastSave.modified
         => /\ lastSave.hashCalls = 0
            /\ lastSave.after = lastSave.before

Range(seq) == {seq[i] : i \in 1..Len(seq)}

MatchesText(text, search) ==
    \E i \in 1..Len(text), j \in 1..Len(text) :
        i <= j /\ ToLower(SubSeq(text, i, j)) = ToLower(search)

\* The filter the listing is to apply, stated on the parameters
Wanted(t, owner, qu) ==
    /\ t.user = owner
    /\ qu.type # None => t.type = qu.type[1]
    /\ qu.category # None => t.category = qu.category[1]
    /\ qu.startDate # None => t.date >= NewDate(qu.startDate[1])
    /\ qu.endDate # None => t.date <= NewDate(qu.endDate[1])
    /\ qu.search # None =>
         MatchesText(t.description, qu.search[1])
         \/ MatchesText(t.category, qu.search[1])

Listed(q) ==
    /\ reqs[q].pc = "done"
    /\ reqs[q].route = "list"
    /\ reqs[q].res.status = 200

\* C7: GET / returns exactly the records that satisfy all of: owner is the
\* principal; kind equals the type filter; date >= startDate; date <= endDate
\* (both inclusive, each on its own); description or category matches the
\* search case-insensitively (and category equals the category filter, as the
\* specification's sentence has it).  A filter that is absent restricts
\* nothing.
C7_FilterIsConjunction ==
    \A q \in Slots : Listed(q) =>
        LET want == {t \in txs : Wanted(t, Principal(reqs[q]), reqs[q].query)}
        IN /\ Range(reqs[q].res.data) = want
           /\ reqs[q].res.total = Cardinality(want)
           /\ reqs[q].query = NoQuery => want = OwnedBy(txs, Principal(reqs[q]))

C7_Witness ==
    /\ Listed(1)
    /\ reqs[1].query.type = Some("thu")
    /\ reqs[1].query.category = None
    /\ reqs[1].query.startDate = Some(Iso(1, None))
    /\ reqs[1].query.endDate = Some(Iso(1, None))
    /\ reqs[1].query.search = Some(<<"s", "a">>)
    /\ Len(reqs[1].res.data) = 1
    /\ reqs[1].res.data[1].date = DayLen
    /\ reqs[1].res.data[1].category = Food
    /\ Cardinality(OwnedBy(txs, 1)) = 2

\* C8 as claimed: with a category filter, GET / returns the owned records
\* whose category contains the filter text, compared case-insensitively.
C8_CategorySubstring ==
    \A q \in Slots :
        Listed(q) /\ reqs[q].query.category # None =>
            Range(reqs[q].res.data) =
                { t \in txs :
                    /\ Wanted(t, Principal(reqs[q]),
                              [reqs[q].query EXCEPT !.category = None])
                    /\ MatchesText(t.category, reqs[q].query.category[1]) }

\* C8 as the code has it: with a category filter, GET / returns the owned
\* records (the other filters applied) whose category is equal to the filter
\* text, case included.
C8_CategoryExact ==
    \A q \in Slots :
        Listed(q) /\ reqs[q].query.category # None =>
            /\ \A i \in 1..Len(reqs[q].res.data) :
                 reqs[q].res.data[i].category = reqs[q].query.category[1]
            /\ \A t \in txs :
                 /\ Wanted(t, Principal(reqs[q]),
                           [reqs[q].query EXCEPT !.category = None])
                 /\ t.category = reqs[q].query.category[1]
                 => t \in Range(reqs[q].res.data)

C8_Witness ==
    /\ Listed(1)
    /\ reqs[1].query = [NoQuery EXCEPT !.category = Some(<<"s", "a">>)]
    /\ \E t \in txs : t.user = 1 /\ t.category = Salary
    /\ reqs[1].res.data = <<>>

\* C9: with the collection unchanged, the pages 1..ceil(N/P) a client reads
\* one request at a time, put end to end, are the N matching records, each
\* once, in the order of the sort key - also when records have equal keys.
C9_PagesPartitionListing ==
    pager.phase = "complete" /\ Listed(1) =>
        pager.acc \in Sorted(Find(txs, 1, pager.query), SortOf(pager.query))

\* The count a page of the listing holds when n records match
PageCount(n, qu) ==
    Min(LimitOf(qu), Max(0, n - (PageOf(qu) - 1) * LimitOf(qu)))

C12_AuthorizeByRole ==
    [][ \A q \in Slots :
          reqs[q].pc = "handler" /\ reqs[q].route \in GatedRoutes
          /\ reqs'[q] # reqs[q] =>
            LET r == reqs[q]
                who == UserById(users, Presented(r)[1].id)
                allowed == \E u \in who : u.role \in RolesOf(r.route)
            IN /\ ~reqs'[q].thrown
               /\ reqs'[q].ops = r.ops
               /\ users' = users /\ txs' = txs
               /\ reqs'[q].user = r.user
               /\ ~allowed => /\ reqs'[q].res = Fail(403, MsgForbidden, "")
                              /\ ~reqs'[q].granted
                              /\ reqs'[q].pc = "done"
               /\ allowed => /\ reqs'[q].granted
                             /\ reqs'[q].res = NoRes
                             /\ reqs'[q].pc = "granted" ]_vars

C12_Witness ==
    /\ reqs[1].route = "admin"
    /\ reqs[1].pc = "done"
    /\ reqs[1].user # None
    /\ reqs[1].user[1].role = "user"
    /\ reqs[1].res.status = 403
    /\ ~reqs[1].granted
    /\ reqs[1].ops = <<"User.findById">>

\* The year a monthly request asks for: the query's, else the current one
AskedYear(r) == IF r.query.year = None THEN getFullYear(now) ELSE r.query.year[1]

\* The owner's records of one kind dated in month m of year y
InMonth(owner, ty, y, m) ==
    { t \in txs : /\ t.user = owner /\ t.type = ty
                  /\ DayIn(y, m) * DayLen <= t.date
                  /\ t.date < DayIn(y, m + 1) * DayLen }

\* C13: a successful GET /stats/monthly carries exactly twelve entries, entry
\* m for month m of the requested year with that month's income and expense
\* of the principal; a month with no record of theirs reports 0 and 0, and a
\* year with none gives twelve all-zero entries.
C13_TwelveMonths ==
    \A q \in Slots :
        LET r == reqs[q]
        IN r.pc = "done" /\ r.route = "monthly" /\ r.res.status = 200 =>
             /\ r.res.success
             /\ Len(r.res.data) = 12
             /\ \A m \in 1..12 :
                  LET inc == InMonth(Principal(r), "thu", AskedYear(r), m)
                      exp == InMonth(Principal(r), "chi", AskedYear(r), m)
                  IN /\ r.res.data[m].month = m
                     /\ r.res.data[m].income = SumAmount(inc)
                     /\ r.res.data[m].expense = SumAmount(exp)
                     /\ inc = {} => r.res.data[m].income = 0
                     /\ exp = {} => r.res.data[m].expense = 0

\* A series for year 1 in which only December has anything, an expense
C13_Witness ==
    /\ reqs[1].pc = "done"
    /\ reqs[1].route = "monthly"
    /\ reqs[1].query.year = Some(1)
    /\ Len(reqs[1].res.data) = 12
    /\ reqs[1].res.data[12].expense = 1
    /\ \A m \in 1..11 :
         reqs[1].res.data[m].income = 0 /\ reqs[1].res.data[m].expense = 0
    /\ \E t \in txs : t.user = 1 /\ getFullYear(t.date) = 0

\* C14: protect answers 401 invalid-or-expired exactly when the presented
\* token does not verify (not issued here, or expired); when the store fails
\* the user lookup of a token that verifies, the answer is a store failure
\* (500), not invalid-or-expired.
C14_InvalidTokenOnlyOnVerify ==
    [][ \A q \in Slots : Gated(q) =>
          LET tok == Presented(reqs[q])
              unverified == tok # None /\ (~Genuine(tok[1]) \/ Expired(tok[1]))
          IN /\ reqs'[q].res = Unauthorized(MsgBadToken) <=> unverified
             /\ reqs'[q].rejected # None =>
                  /\ reqs'[q].res.status = 500
                  /\ reqs'[q].res.message # MsgBadToken ]_vars

\* The store failed an operation of the handler of r (not protect's lookup)
HandlerRejected(r) == r.rejected # None /\ r.nextCalled

\* C15: when a store operation of a list, get, create, update, delete or
\* statistics handler fails, the request ends with one answer, status 500
\* with the handler's message, sent when no answer had been sent before; the
\* failed operation is the request's last one and was attempted once, the
\* collection is as it was, and nothing is thrown out of the handler.
C15_StoreFailureOnce ==
    /\ [](\A q \in Slots :
            LET r == reqs[q]
            IN HandlerRejected(r) =>
                 /\ r.route \in TxRoutes
                 /\ r.pc = "done"
                 /\ r.res.status = 500
                 /\ ~r.res.success
                 /\ r.res.message \in
                      {MsgListError, MsgGetError, MsgCreateError, MsgUpdateError,
                       MsgDeleteError, MsgStatsError}
                 /\ r.res.data = None
                 /\ ~r.thrown
                 /\ r.ops[Len(r.ops)] = r.rejected[1]
                 /\ \A i, j \in 1..Len(r.ops) : r.ops[i] = r.ops[j] => i = j)
    /\ [][ \A q \in Slots :
             HandlerRejected(reqs'[q]) /\ ~HandlerRejected(reqs[q]) =>
               /\ reqs[q].res = NoRes
               /\ reqs[q].pc \in {"handler", "count", "write"}
               /\ Len(reqs'[q].ops) = Len(reqs[q].ops) + 1
               /\ txs' = txs ]_vars

C15_Witness ==
    /\ reqs[1].route = "update"
    /\ reqs[1].pc = "done"
    /\ reqs[1].rejected = Some("Transaction.findByIdAndUpdate")
    /\ reqs[1].res = Fail(500, MsgUpdateError, StoreError)
    /\ reqs[1].ops = <<"User.findById", "Transaction.findOne",
                      "Transaction.findByIdAndUpdate">>
    /\ \E t \in txs : t._id = 1 /\ t.amount = 1

\* C16: a POST / that stores a record stores exactly one, owned by the user
\* whose token the request presented, whatever user field the body carries;
\* the records already stored are left as they are.
C16_CreateOwnedByCaller ==
    [][ \A q \in Slots :
          reqs[q].route = "create" /\ reqs[q].pc = "handler"
          /\ reqs'[q] # reqs[q] /\ reqs'[q].res.status = 201 =>
            /\ txs \subseteq txs'
            /\ Cardinality(txs' \ txs) = 1
            /\ \A t \in txs' \ txs :
                 /\ t.user = Presented(reqs[q])[1].id
                 /\ reqs'[q].res.data = Some(t) ]_vars

\* User 2's POST / whose body names user 1 as owner is about to be stored
C16_Witness ==
    /\ reqs[1].route = "create"
    /\ reqs[1].pc = "handler"
    /\ ValidCreate(reqs[1].body)
    /\ reqs[1].body.user = Some(1)
    /\ Principal(reqs[1]) = 2
    /\ nextId <= MaxTx
    /\ \E t \in txs : t.user = 2

\* Slot q's PUT /:id applies its write in this step.
Writes(q) ==
    reqs[q].route = "update" /\ reqs[q].pc = "write" /\ reqs'[q] # reqs[q]

\* C17: no step changes the owner of a stored record: a record that is in
\* the collection before and after a step has the same owner, for every body
\* a PUT /:id carries, one with a user field included.
C17_UpdateKeepsOwner ==
    [][ \A t \in txs, u \in txs' : t._id = u._id => t.user = u.user ]_vars

\* C18: in every interleaving, the record a PUT /:id write changes is owned,
\* when the write is applied, by the principal of the request, which is the
\* owner the request's findOne saw.
C18_WriteOnOwnRecord ==
    [][ \A q \in Slots : Writes(q) =>
          \A t \in txs \ txs' :
              /\ t.user = Principal(reqs[q])
              /\ t.user = reqs[q].local[1].user ]_vars

\* C19: a PUT /:id answered with success = true carries the updated record
\* as data, and that record, the one stored under the id when the write was
\* applied, is in the collection afterwards - also when a DELETE of the
\* record completed between the request's findOne and its write.
C19_UpdateSuccessHasRecord ==
    [][ \A q \in Slots : Writes(q) /\ reqs'[q].res.success =>
          /\ reqs'[q].res.data # None
          /\ Cardinality({t \in txs : t._id = reqs[q].id}) = 1
          /\ \A i \in 1..Len(reqs'[q].res.data) :
               /\ reqs'[q].res.data[i]._id = reqs[q].id
               /\ reqs'[q].res.data[i] \in txs' ]_vars

====
